---- MODULE Spec2Model ----
(***************************************************************************)
(* Model of the conversation session manager of textgpt                    *)
(* (src/src/chatbot.rs): ChatBot::handle_message and the functions it      *)
(* calls, for one sender, with the SQLite row of that sender as the        *)
(* persistent store.                                                       *)
(*                                                                         *)
(* Time is counted in ticks, TicksPerSec ticks to the second, so that the  *)
(* sub-second part of Utc::now() that DateTime::timestamp() drops is       *)
(* visible.  A string is a sequence of chunks, the chunk " " standing for  *)
(* whitespace, so that str::trim() is not the identity.                    *)
(*                                                                         *)
(* handle_message is split at its await points: the store read, the        *)
(* completion call and the store write.                                    *)
(***************************************************************************)
EXTENDS Integers, Sequences, FiniteSets, TLC

\* chatbot.rs:10
DAILY_MESSAGE_LIMIT == 10

\* Duration::days(1) in seconds (chatbot.rs:77)
DaySeconds == 86400

\* ---- bounds of the model ----
TicksPerSec == 2      \* clock resolution: ticks in one second
MaxDays == 1          \* the clock stops one tick after MaxDays days
MaxTotal == 11        \* no call starts once total_received has reached this
MaxExchanges == 2     \* no model exchange starts once the stored history holds this many
MaxOverlapped == 2    \* no overlapping call starts once total_received has reached this

DayTicks == DaySeconds * TicksPerSec

\* The instants the clock takes: the start of each day and one tick later,
\* which is within the same second.
Times == { d * DayTicks + o : d \in 0..MaxDays, o \in 0..1 }

\* The two tasks that may run handle_message.
Handlers == {"h1", "h2"}

\* The task that runs it when the sender's messages come one after another.
Sequential == {"h1"}

\* ---- strings ----
WS == " "

RECURSIVE trim_start(_)
trim_start(s) ==
    IF s # <<>> /\ Head(s) = WS THEN trim_start(Tail(s)) ELSE s

RECURSIVE trim_end(_)
trim_end(s) ==
    IF s # <<>> /\ s[Len(s)] = WS THEN trim_end(SubSeq(s, 1, Len(s) - 1)) ELSE s

\* str::trim (chatbot.rs:164)
trim(s) == trim_end(trim_start(s))

HELP == <<"!help">>
STATS == <<"!stats">>
HELLO == <<"hello">>
PADDED_HELP == <<WS, "!help", WS>>

\* The message bodies a sender sends.
Bodies == {HELP, STATS, HELLO, PADDED_HELP}

DEFAULT_PROMPT == <<"You are a helpful assistant. Please keep your responses concise.">>
FAILED == <<"Failed to get response.">>

\* ---- GPTMessage, User ----
GPTMessage(role, content) == [role |-> role, content |-> content]

\* ---- DateTime <-> INTEGER column ----
\* DateTime::timestamp (chatbot.rs:225): whole seconds since the epoch
timestamp(t) == t \div TicksPerSec

\* DateTime::from_timestamp(secs, 0) (chatbot.rs:192)
from_timestamp(secs) == secs * TicksPerSec

\* ---- Vec<GPTMessage> <-> TEXT column ----
\* serde_json::to_string (chatbot.rs:224): an array of role/content pairs
to_string(messages) ==
    [i \in 1..Len(messages) |-> <<messages[i].role, messages[i].content>>]

\* A slip: the two fields are read in the wrong order.
from_str_swapped(text) ==
    [i \in 1..Len(text) |-> GPTMessage(text[i][2], text[i][1])]

\* serde_json::from_str (chatbot.rs:191)
from_str(text) ==
    [i \in 1..Len(text) |-> GPTMessage(text[i][1], text[i][2])]

\* ---- the row of the sender in table messages ----
NoRow == [present |-> FALSE, total_received |-> 0, total_sent |-> 0,
          received_today |-> 0, messages |-> <<>>, last_reset |-> 0]

\* ---- replies ----
None == [kind |-> "none"]
QuotaReply(limit, at) == [kind |-> "quota", limit |-> limit, reset_at |-> at]
HelpReply == [kind |-> "help"]
StatsReply(r, s, t) == [kind |-> "stats", total_received |-> r,
                        total_sent |-> s, received_today |-> t]
TextReply(content) == [kind |-> "text", content |-> content]

\* A User nobody looks at: the locals of a task that is not in a call.
NoUser == [total_received |-> 0, total_sent |-> 0, received_today |-> 0,
           messages |-> <<>>, last_reset |-> 0]

\* ---- the completion gateway's answers ----
Some(content) == [some |-> TRUE, content |-> content]
NoContent == [some |-> FALSE, content |-> <<>>]
Ok(choices) == [ok |-> TRUE, choices |-> choices]
Err == [ok |-> FALSE, choices |-> <<>>]
NoCompletion == [ok |-> FALSE, choices |-> <<"not called">>]

OK_TEXT == <<WS, "ok", WS>>

\* What ChatCompletion::create can resolve to.
Completions == { Err,
                 Ok(<<Some(OK_TEXT)>>),
                 Ok(<<Some(OK_TEXT), Some(FAILED)>>),
                 Ok(<<>>),
                 Ok(<<NoContent>>) }

VARIABLES
    now,         \* the clock, in ticks
    db,          \* the sender's row of table messages, or NoRow
    pc,          \* where each task is in handle_message
    msg,         \* handle_message's argument message
    user,        \* handle_message's local user
    pre,         \* the row as find_user read it
    loaded,      \* the user as find_user returned it
    at,          \* the instant handle_short_circuits first read the clock
    reset,       \* whether handle_short_circuits reset the daily quota
    reply,       \* the short circuit's or the model's reply
    completion,  \* what the completion call resolved to
    gpt_calls,   \* completion calls made by this handle_message call
    upserts,     \* store writes made by this handle_message call
    handled      \* messages handled to the end since the quota was last reset

vars == <<now, db, pc, msg, user, pre, loaded, at, reset, reply, completion,
          gpt_calls, upserts, handled>>

\* ---- ChatBot::find_user ----
\* chatbot.rs:173-180
new_user(t) == [total_received |-> 0, total_sent |-> 0, received_today |-> 0,
                messages |-> <<>>, last_reset |-> t]

\* chatbot.rs:186-193
load_row(u, row) ==
    IF row.present
    THEN [total_received |-> row.total_received,
          total_sent |-> row.total_sent,
          received_today |-> row.received_today,
          messages |-> from_str(row.messages),
          last_reset |-> from_timestamp(row.last_reset)]
    ELSE u

\* A slip: no prompt is seeded (as find_user of main.rs:86-110).
seed_prompt_never(u) == u

\* chatbot.rs:195-201
seed_prompt(u) ==
    IF u.messages = <<>>
    THEN [u EXCEPT !.messages = <<GPTMessage("System", DEFAULT_PROMPT)>>]
    ELSE u

find_user(u, row) == seed_prompt(load_row(u, row))

\* ---- ChatBot::handle_short_circuits ----
\* Slips of handle_short_circuits, each used to test one property below.

\* received_today is not counted.
handle_short_circuits_uncounted(u, m, t1, t2) ==
    LET r == t1 >= u.last_reset + DayTicks
        u1 == IF r THEN [u EXCEPT !.received_today = 0, !.last_reset = t2]
                   ELSE u
        u2 == [u1 EXCEPT !.total_received = @ + 1]
        res == IF u2.received_today >= DAILY_MESSAGE_LIMIT
               THEN QuotaReply(DAILY_MESSAGE_LIMIT, u2.last_reset + DayTicks)
               ELSE IF m = HELP THEN HelpReply
               ELSE IF m = STATS
                    THEN StatsReply(u2.total_received, u2.total_sent,
                                    u2.received_today)
               ELSE None
    IN [user |-> u2, reply |-> res, reset |-> r]

\* The limit is compared before the message is counted, and a rejected
\* message is not counted (the order of main.rs:64-74).
handle_short_circuits_check_first(u, m, t1, t2) ==
    LET r == t1 >= u.last_reset + DayTicks
        u1 == IF r THEN [u EXCEPT !.received_today = 0, !.last_reset = t2]
                   ELSE u
        over == u1.received_today >= DAILY_MESSAGE_LIMIT
        u2 == IF over THEN u1
              ELSE [u1 EXCEPT !.received_today = @ + 1,
                              !.total_received = @ + 1]
        res == IF over
               THEN QuotaReply(DAILY_MESSAGE_LIMIT, u2.last_reset + DayTicks)
               ELSE IF m = HELP THEN HelpReply
               ELSE IF m = STATS
                    THEN StatsReply(u2.total_received, u2.total_sent,
                                    u2.received_today)
               ELSE None
    IN [user |-> u2, reply |-> res, reset |-> r]

\* The limit is compared before the daily reset.
handle_short_circuits_quota_first(u, m, t1, t2) ==
    LET r == t1 >= u.last_reset + DayTicks
        over == u.received_today + 1 >= DAILY_MESSAGE_LIMIT
        u1 == IF r THEN [u EXCEPT !.received_today = 0, !.last_reset = t2]
                   ELSE u
        u2 == [u1 EXCEPT !.received_today = @ + 1, !.total_received = @ + 1]
        res == IF over
               THEN QuotaReply(DAILY_MESSAGE_LIMIT, u2.last_reset + DayTicks)
               ELSE IF m = HELP THEN HelpReply
               ELSE IF m = STATS
                    THEN StatsReply(u2.total_received, u2.total_sent,
                                    u2.received_today)
               ELSE None
    IN [user |-> u2, reply |-> res, reset |-> r]

\* The day is left out of the reset test.
handle_short_circuits_no_day(u, m, t1, t2) ==
    LET r == t1 >= u.last_reset
        u1 == IF r THEN [u EXCEPT !.received_today = 0, !.last_reset = t2]
                   ELSE u
        u2 == [u1 EXCEPT !.received_today = @ + 1, !.total_received = @ + 1]
        res == IF u2.received_today >= DAILY_MESSAGE_LIMIT
               THEN QuotaReply(DAILY_MESSAGE_LIMIT, u2.last_reset + DayTicks)
               ELSE IF m = HELP THEN HelpReply
               ELSE IF m = STATS
                    THEN StatsReply(u2.total_received, u2.total_sent,
                                    u2.received_today)
               ELSE None
    IN [user |-> u2, reply |-> res, reset |-> r]

\* The commands are matched before the limit is compared.
handle_short_circuits_command_first(u, m, t1, t2) ==
    LET r == t1 >= u.last_reset + DayTicks
        u1 == IF r THEN [u EXCEPT !.received_today = 0, !.last_reset = t2]
                   ELSE u
        u2 == [u1 EXCEPT !.received_today = @ + 1, !.total_received = @ + 1]
        res == IF m = HELP THEN HelpReply
               ELSE IF m = STATS
                    THEN StatsReply(u2.total_received, u2.total_sent,
                                    u2.received_today)
               ELSE IF u2.received_today >= DAILY_MESSAGE_LIMIT
               THEN QuotaReply(DAILY_MESSAGE_LIMIT, u2.last_reset + DayTicks)
               ELSE None
    IN [user |-> u2, reply |-> res, reset |-> r]

\* !stats is not matched.
handle_short_circuits_no_stats(u, m, t1, t2) ==
    LET r == t1 >= u.last_reset + DayTicks
        u1 == IF r THEN [u EXCEPT !.received_today = 0, !.last_reset = t2]
                   ELSE u
        u2 == [u1 EXCEPT !.received_today = @ + 1, !.total_received = @ + 1]
        res == IF u2.received_today >= DAILY_MESSAGE_LIMIT
               THEN QuotaReply(DAILY_MESSAGE_LIMIT, u2.last_reset + DayTicks)
               ELSE IF m = HELP THEN HelpReply
               ELSE None
    IN [user |-> u2, reply |-> res, reset |-> r]

\* The commands are matched on the trimmed text.
handle_short_circuits_trimmed(u, m, t1, t2) ==
    LET r == t1 >= u.last_reset + DayTicks
        u1 == IF r THEN [u EXCEPT !.received_today = 0, !.last_reset = t2]
                   ELSE u
        u2 == [u1 EXCEPT !.received_today = @ + 1, !.total_received = @ + 1]
        res == IF u2.received_today >= DAILY_MESSAGE_LIMIT
               THEN QuotaReply(DAILY_MESSAGE_LIMIT, u2.last_reset + DayTicks)
               ELSE IF trim(m) = HELP THEN HelpReply
               ELSE IF trim(m) = STATS
                    THEN StatsReply(u2.total_received, u2.total_sent,
                                    u2.received_today)
               ELSE None
    IN [user |-> u2, reply |-> res, reset |-> r]

\* !stats reports the counters as they were loaded.
handle_short_circuits_stale_stats(u, m, t1, t2) ==
    LET r == t1 >= u.last_reset + DayTicks
        u1 == IF r THEN [u EXCEPT !.received_today = 0, !.last_reset = t2]
                   ELSE u
        u2 == [u1 EXCEPT !.received_today = @ + 1, !.total_received = @ + 1]
        res == IF u2.received_today >= DAILY_MESSAGE_LIMIT
               THEN QuotaReply(DAILY_MESSAGE_LIMIT, u2.last_reset + DayTicks)
               ELSE IF m = HELP THEN HelpReply
               ELSE IF m = STATS
                    THEN StatsReply(u.total_received, u.total_sent,
                                    u.received_today)
               ELSE None
    IN [user |-> u2, reply |-> res, reset |-> r]

\* chatbot.rs:75-102.
\* t1 and t2 are the two readings of Utc::now(), t1 <= t2.
handle_short_circuits(u, m, t1, t2) ==
    LET r == t1 >= u.last_reset + DayTicks
        u1 == IF r THEN [u EXCEPT !.received_today = 0, !.last_reset = t2]
                   ELSE u
        u2 == [u1 EXCEPT !.received_today = @ + 1, !.total_received = @ + 1]
        res == IF u2.received_today >= DAILY_MESSAGE_LIMIT
               THEN QuotaReply(DAILY_MESSAGE_LIMIT, u2.last_reset + DayTicks)
               ELSE IF m = HELP THEN HelpReply
               ELSE IF m = STATS
                    THEN StatsReply(u2.total_received, u2.total_sent,
                                    u2.received_today)
               ELSE None
    IN [user |-> u2, reply |-> res, reset |-> r]

\* ---- ChatBot::make_chat_completion_message ----
make_chat_completion_message(messages) ==
    [i \in 1..Len(messages) |->
        [role |-> IF messages[i].role = "User" THEN "User" ELSE "System",
         content |-> Some(messages[i].content)]]

\* ---- ChatBot::get_gpt_response ----
\* A slip: the Err of the call is unwrapped too (as main.rs:149-153 does).
get_gpt_response_unwrap(c) ==
    IF c.ok
    THEN IF c.choices = <<>> THEN [panic |-> TRUE, value |-> <<>>]
         ELSE IF ~ c.choices[1].some THEN [panic |-> TRUE, value |-> <<>>]
         ELSE [panic |-> FALSE, value |-> trim(c.choices[1].content)]
    ELSE [panic |-> TRUE, value |-> <<>>]

\* chatbot.rs:149-169.
\* The string it returns, or the panic of an unwrap() on None.
get_gpt_response(c) ==
    IF c.ok
    THEN IF c.choices = <<>> THEN [panic |-> TRUE, value |-> <<>>]
         ELSE IF ~ c.choices[1].some THEN [panic |-> TRUE, value |-> <<>>]
         ELSE [panic |-> FALSE, value |-> trim(c.choices[1].content)]
    ELSE [panic |-> FALSE, value |-> FAILED]

\* ---- ChatBot::update_db ----
\* A slip: the upsert keeps the larger total_received of the old row and the
\* new one, column by column, instead of replacing the row.
update_db_merged(u) ==
    [present |-> TRUE,
     total_received |-> IF db.total_received > u.total_received
                        THEN db.total_received ELSE u.total_received,
     total_sent |-> u.total_sent,
     received_today |-> u.received_today,
     messages |-> to_string(u.messages),
     last_reset |-> timestamp(u.last_reset)]

\* chatbot.rs:207-229.
\* The row the upsert leaves under the sender's phone number.
update_db(u) ==
    [present |-> TRUE,
     total_received |-> u.total_received,
     total_sent |-> u.total_sent,
     received_today |-> u.received_today,
     messages |-> to_string(u.messages),
     last_reset |-> timestamp(u.last_reset)]

\* ---- the state after ChatBot::new ----
Init ==
    /\ now = 0
    /\ db = NoRow
    /\ pc = [h \in Handlers |-> "idle"]
    /\ msg = [h \in Handlers |-> <<>>]
    /\ user = [h \in Handlers |-> NoUser]
    /\ pre = [h \in Handlers |-> NoRow]
    /\ loaded = [h \in Handlers |-> NoUser]
    /\ at = [h \in Handlers |-> 0]
    /\ reset = [h \in Handlers |-> FALSE]
    /\ reply = [h \in Handlers |-> None]
    /\ completion = [h \in Handlers |-> NoCompletion]
    /\ gpt_calls = [h \in Handlers |-> 0]
    /\ upserts = [h \in Handlers |-> 0]
    /\ handled = 0

\* ---- ChatBot::handle_message ----
\* The call, up to the store read of find_user (chatbot.rs:42-43, 173-184).
handle_message_call(h, m) ==
    /\ pc[h] = "idle"
    /\ db.total_received < MaxTotal
    /\ m \notin {HELP, STATS} => Len(db.messages) < 1 + 2 * MaxExchanges
    /\ pc' = [pc EXCEPT ![h] = "find"]
    /\ msg' = [msg EXCEPT ![h] = m]
    /\ user' = [user EXCEPT ![h] = new_user(now)]
    /\ UNCHANGED <<now, db, pre, loaded, at, reset, reply, completion,
                   gpt_calls, upserts, handled>>

\* The row arrives; find_user returns, handle_short_circuits runs, and the
\* user's entry is pushed unless it short-circuits (chatbot.rs:43-54, 186-203).
handle_message_find(h) ==
    /\ pc[h] = "find"
    /\ \E t2 \in {t \in Times : now <= t /\ t <= now + 1} :
        LET u == find_user(user[h], db)
            sc == handle_short_circuits(u, msg[h], now, t2)
        IN /\ now' = IF sc.reset THEN t2 ELSE now
           /\ sc.reset \/ t2 = now
           /\ pre' = [pre EXCEPT ![h] = db]
           /\ loaded' = [loaded EXCEPT ![h] = u]
           /\ at' = [at EXCEPT ![h] = now]
           /\ reset' = [reset EXCEPT ![h] = sc.reset]
           /\ reply' = [reply EXCEPT ![h] = sc.reply]
           /\ IF sc.reply # None
              THEN /\ user' = [user EXCEPT ![h] = sc.user]
                   /\ pc' = [pc EXCEPT ![h] = "update_sc"]
              ELSE /\ user' = [user EXCEPT ![h] =
                         [sc.user EXCEPT !.messages =
                             Append(@, GPTMessage("User", msg[h]))]]
                   /\ pc' = [pc EXCEPT ![h] = "gpt"]
    /\ UNCHANGED <<db, msg, completion, gpt_calls, upserts, handled>>

\* The completion call resolves to c; the reply is pushed and counted
\* (chatbot.rs:56-66), or an unwrap() panics and the task ends.
handle_message_gpt(h, c) ==
    /\ pc[h] = "gpt"
    /\ completion' = [completion EXCEPT ![h] = c]
    /\ gpt_calls' = [gpt_calls EXCEPT ![h] = @ + 1]
    /\ LET r == get_gpt_response(c)
       IN IF r.panic
          THEN /\ pc' = [pc EXCEPT ![h] = "panicked"]
               /\ UNCHANGED <<user, reply>>
          ELSE /\ pc' = [pc EXCEPT ![h] = "update"]
               /\ reply' = [reply EXCEPT ![h] = TextReply(r.value)]
               /\ user' = [user EXCEPT ![h] =
                     [@ EXCEPT !.messages =
                          Append(@, GPTMessage("System", r.value)),
                      !.total_sent = @ + 1]]
    /\ UNCHANGED <<now, db, msg, pre, loaded, at, reset, upserts, handled>>

\* A slip: the short circuit's reply is counted before the store write.
handle_message_update_sc_counted(h) ==
    /\ pc[h] = "update_sc"
    /\ db' = update_db([user[h] EXCEPT !.total_sent = @ + 1])
    /\ upserts' = [upserts EXCEPT ![h] = @ + 1]
    /\ user' = [user EXCEPT ![h] = [@ EXCEPT !.total_sent = @ + 1]]
    /\ pc' = [pc EXCEPT ![h] = "done"]
    /\ UNCHANGED <<now, msg, pre, loaded, at, reset, reply, completion,
                   gpt_calls, handled>>

\* The short circuit's store write, then the count of the reply
\* (chatbot.rs:46-48).
handle_message_update_sc(h) ==
    /\ pc[h] = "update_sc"
    /\ db' = update_db(user[h])
    /\ upserts' = [upserts EXCEPT ![h] = @ + 1]
    /\ user' = [user EXCEPT ![h] = [@ EXCEPT !.total_sent = @ + 1]]
    /\ pc' = [pc EXCEPT ![h] = "done"]
    /\ UNCHANGED <<now, msg, pre, loaded, at, reset, reply, completion,
                   gpt_calls, handled>>

\* The store write that ends a model exchange (chatbot.rs:67-69).
handle_message_update(h) ==
    /\ pc[h] = "update"
    /\ db' = update_db(user[h])
    /\ upserts' = [upserts EXCEPT ![h] = @ + 1]
    /\ pc' = [pc EXCEPT ![h] = "done"]
    /\ UNCHANGED <<now, msg, user, pre, loaded, at, reset, reply, completion,
                   gpt_calls, handled>>

\* The call's locals go out of scope.
Drop(h) ==
    /\ pc' = [pc EXCEPT ![h] = "idle"]
    /\ msg' = [msg EXCEPT ![h] = <<>>]
    /\ user' = [user EXCEPT ![h] = NoUser]
    /\ pre' = [pre EXCEPT ![h] = NoRow]
    /\ loaded' = [loaded EXCEPT ![h] = NoUser]
    /\ at' = [at EXCEPT ![h] = 0]
    /\ reset' = [reset EXCEPT ![h] = FALSE]
    /\ reply' = [reply EXCEPT ![h] = None]
    /\ completion' = [completion EXCEPT ![h] = NoCompletion]
    /\ gpt_calls' = [gpt_calls EXCEPT ![h] = 0]
    /\ upserts' = [upserts EXCEPT ![h] = 0]

\* The caller takes the reply.
handle_message_return(h) ==
    /\ pc[h] = "done"
    /\ handled' = IF reset[h] THEN 1 ELSE handled + 1
    /\ Drop(h)
    /\ UNCHANGED <<now, db>>

\* The panicked task is torn down; nothing of its call is kept.
handle_message_abort(h) ==
    /\ pc[h] = "panicked"
    /\ Drop(h)
    /\ UNCHANGED <<now, db, handled>>

\* The store read fails: row.unwrap() panics (chatbot.rs:186-187).
handle_message_find_fail(h) ==
    /\ pc[h] = "find"
    /\ pc' = [pc EXCEPT ![h] = "panicked"]
    /\ UNCHANGED <<now, db, msg, user, pre, loaded, at, reset, reply,
                   completion, gpt_calls, upserts, handled>>

\* The store write fails: expect() panics and the row stays as it was
\* (chatbot.rs:226-228).
handle_message_update_fail(h) ==
    /\ pc[h] \in {"update_sc", "update"}
    /\ pc' = [pc EXCEPT ![h] = "panicked"]
    /\ UNCHANGED <<now, db, msg, user, pre, loaded, at, reset, reply,
                   completion, gpt_calls, upserts, handled>>

\* Time passes.
Advance(t) ==
    /\ t > now
    /\ now' = t
    /\ UNCHANGED <<db, pc, msg, user, pre, loaded, at, reset, reply, completion,
                   gpt_calls, upserts, handled>>

\* One sender's messages handled one after another.
Next ==
    \/ \E h \in Sequential, m \in Bodies : handle_message_call(h, m)
    \/ \E h \in Sequential : handle_message_find(h)
    \/ \E h \in Sequential, c \in Completions : handle_message_gpt(h, c)
    \/ \E h \in Sequential : handle_message_update_sc(h)
    \/ \E h \in Sequential : handle_message_update(h)
    \/ \E h \in Sequential : handle_message_return(h)
    \/ \E h \in Sequential : handle_message_abort(h)
    \/ \E t \in Times : Advance(t)

Spec == Init /\ [][Next]_vars

\* One sender's messages handled one after another by a store whose reads
\* and writes may fail.
FaultyNext ==
    \/ Next
    \/ \E h \in Sequential : handle_message_find_fail(h)
    \/ \E h \in Sequential : handle_message_update_fail(h)

Faulty == Init /\ [][FaultyNext]_vars

\* One sender's messages handled by two tasks at once: the steps of the two
\* calls interleave at the await points.
ConcurrentNext ==
    \/ \E h \in Handlers, m \in {STATS, HELLO} :
          db.total_received < MaxOverlapped /\ handle_message_call(h, m)
    \/ \E h \in Handlers : handle_message_find(h)
    \/ \E h \in Handlers, c \in {Ok(<<Some(OK_TEXT)>>), Ok(<<>>)} :
          handle_message_gpt(h, c)
    \/ \E h \in Handlers : handle_message_update_sc(h)
    \/ \E h \in Handlers : handle_message_update(h)
    \/ \E h \in Handlers : handle_message_return(h)
    \/ \E h \in Handlers : handle_message_abort(h)
    \/ \E t \in Times : t % DayTicks = 0 /\ Advance(t)

Concurrent == Init /\ [][ConcurrentNext]_vars

TypeOK ==
    /\ now \in Times
    /\ pc \in [Handlers -> {"idle", "find", "gpt", "update_sc", "update",
                            "done", "panicked"}]
    /\ db.total_received <= MaxTotal

\* ---- properties of handle_message ----
Handling(h) == pc[h] \in {"gpt", "update_sc", "update", "done", "panicked"}
Returned(h) == pc[h] = "done"
ShortCircuited(h) == Handling(h) /\ reply[h].kind \in {"quota", "help", "stats"}
Command(h) == msg[h] \in {HELP, STATS}
Persisted(u) == db = update_db(u)

\* C1: after any handle_message call the persisted total_sent is the value
\* persisted before the call plus 1.
C1_TotalSentCounted ==
    \A h \in Handlers : Returned(h) => db.total_sent = pre[h].total_sent + 1

\* C2: once DAILY_MESSAGE_LIMIT or more messages have been handled in the
\* window, the next message of the window gets the quota reply naming
\* last_reset + 24h, no completion call is made for it and the stored history
\* is left as it was.
C2_QuotaAfterLimit ==
    \A h \in Handlers :
        (Handling(h) /\ handled >= DAILY_MESSAGE_LIMIT /\ ~ reset[h]) =>
            /\ reply[h] = QuotaReply(DAILY_MESSAGE_LIMIT,
                              from_timestamp(pre[h].last_reset) + DayTicks)
            /\ gpt_calls[h] = 0
            /\ pc[h] \in {"update_sc", "done"}
            /\ Returned(h) => db.messages = pre[h].messages

C2_Witness ==
    \E h \in Handlers :
        /\ Returned(h) /\ handled >= DAILY_MESSAGE_LIMIT /\ ~ reset[h]
        /\ msg[h] = HELLO
        /\ reply[h].kind = "quota"

\* C3 as stated: received_today, in memory after handle_short_circuits and as
\* persisted, never exceeds DAILY_MESSAGE_LIMIT.
C3_NeverOverLimit ==
    /\ db.received_today <= DAILY_MESSAGE_LIMIT
    /\ \A h \in Handlers :
          Handling(h) => user[h].received_today <= DAILY_MESSAGE_LIMIT

\* C3 amended: received_today counts every message of the window, the
\* quota-rejected ones too: in memory and as persisted it is the number of
\* messages handled in the window, this one included, and it is below
\* DAILY_MESSAGE_LIMIT exactly when the message is not quota-rejected.
C3_CountsEveryMessage ==
    \A h \in Handlers :
        Handling(h) =>
            /\ user[h].received_today = (IF reset[h] THEN 1 ELSE handled + 1)
            /\ (user[h].received_today < DAILY_MESSAGE_LIMIT)
                   <=> (reply[h].kind # "quota")
            /\ Returned(h) => db.received_today = user[h].received_today

C3_Witness ==
    \E h \in Handlers :
        /\ Returned(h)
        /\ db.received_today > DAILY_MESSAGE_LIMIT
        /\ reply[h].kind = "quota"

\* C4: a message that arrives with now >= last_reset + 24h resets
\* received_today to 0 and last_reset to now before the quota comparison:
\* received_today is 1 after the increment and the message is not
\* quota-rejected, whatever received_today was before.
C4_ResetBeforeQuota ==
    \A h \in Handlers :
        (Handling(h) /\ at[h] >= loaded[h].last_reset + DayTicks) =>
            /\ reset[h]
            /\ user[h].received_today = 1
            /\ at[h] <= user[h].last_reset /\ user[h].last_reset <= now
            /\ reply[h].kind # "quota"
            /\ Returned(h) =>
                  /\ db.received_today = 1
                  /\ db.last_reset = timestamp(user[h].last_reset)

C4_Witness ==
    \E h \in Handlers :
        /\ Returned(h)
        /\ at[h] >= loaded[h].last_reset + DayTicks
        /\ pre[h].received_today >= DAILY_MESSAGE_LIMIT
        /\ reply[h].kind = "text"

\* C5 as stated: a call with now < last_reset + 24h leaves last_reset as it
\* was, in memory and as persisted and reloaded, and does not set
\* received_today to 0.
C5_ResetIdempotent ==
    \A h \in Handlers :
        (Handling(h) /\ at[h] < loaded[h].last_reset + DayTicks) =>
            /\ user[h].last_reset = loaded[h].last_reset
            /\ user[h].received_today # 0
            /\ Returned(h) =>
                  from_timestamp(db.last_reset) = user[h].last_reset

\* C5 amended: a call with now < last_reset + 24h leaves last_reset as it
\* was in memory, does not set received_today to 0, and leaves the persisted
\* last_reset of a sender that has a row as it was; the last_reset of a new
\* sender is the clock's, and is persisted cut to whole seconds, so that it
\* is reloaded up to a second earlier.
C5_ResetIdempotentToTheSecond ==
    \A h \in Handlers :
        (Handling(h) /\ at[h] < loaded[h].last_reset + DayTicks) =>
            /\ ~ reset[h]
            /\ user[h].last_reset = loaded[h].last_reset
            /\ user[h].received_today = loaded[h].received_today + 1
            /\ (Returned(h) /\ pre[h].present) =>
                  /\ db.last_reset = pre[h].last_reset
                  /\ from_timestamp(db.last_reset) = user[h].last_reset
            /\ (Returned(h) /\ ~ pre[h].present) =>
                  /\ from_timestamp(db.last_reset) <= user[h].last_reset
                  /\ user[h].last_reset
                        < from_timestamp(db.last_reset) + TicksPerSec

C5_Witness ==
    \E h \in Handlers :
        /\ Returned(h) /\ pre[h].present
        /\ at[h] < loaded[h].last_reset + DayTicks
        /\ at[h] > loaded[h].last_reset
        /\ pre[h].received_today > 0

\* C6: the quota comparison comes before the commands: !help or !stats from
\* a sender whose received_today, this message counted, is at the limit or
\* over gets the quota reply.
C6_QuotaBeforeCommands ==
    \A h \in Handlers :
        (Handling(h) /\ Command(h)
            /\ user[h].received_today >= DAILY_MESSAGE_LIMIT) =>
                reply[h] = QuotaReply(DAILY_MESSAGE_LIMIT,
                                      user[h].last_reset + DayTicks)

C6_Witness ==
    \E h \in Handlers :
        /\ Returned(h) /\ msg[h] = STATS
        /\ user[h].received_today = DAILY_MESSAGE_LIMIT
        /\ reply[h].kind = "quota"

\* C7: a call with !help or !stats appends nothing to the history, persists
\* the history it loaded and makes no completion call.
C7_CommandPurity ==
    \A h \in Handlers :
        (Handling(h) /\ Command(h)) =>
            /\ gpt_calls[h] = 0
            /\ pc[h] \in {"update_sc", "done"}
            /\ user[h].messages = loaded[h].messages
            /\ Returned(h) => from_str(db.messages) = loaded[h].messages

C7_Witness ==
    \E h \in Handlers :
        /\ Returned(h) /\ msg[h] = STATS /\ reply[h].kind = "stats"
        /\ Len(loaded[h].messages) > 1
        /\ from_str(db.messages) = loaded[h].messages

\* C8: every call that is not short-circuited grows the history by exactly
\* two entries, the user's text and then the reply as a System entry,
\* whatever the completion call resolved to.
C8_HistoryGrowsByTwo ==
    \A h \in Handlers :
        (pc[h] \in {"done", "panicked"} /\ ~ ShortCircuited(h)) =>
            /\ Len(db.messages) = Len(loaded[h].messages) + 2
            /\ reply[h].kind = "text"
            /\ from_str(db.messages) =
                  loaded[h].messages
                      \o <<GPTMessage("User", msg[h]),
                           GPTMessage("System", reply[h].content)>>

C10_NeverAborts ==
    \A h \in Handlers :
        (gpt_calls[h] > 0
            /\ (~ completion[h].ok \/ completion[h].choices = <<>>
                   \/ ~ completion[h].choices[1].some)) =>
            /\ pc[h] # "panicked"
            /\ reply[h] = TextReply(FAILED)

\* C11: handle_message never fails outward: every call, those during which
\* the store read or the store write fails included, ends with a reply for
\* the caller and never with a panic.
C11_AlwaysReplies ==
    \A h \in Handlers : pc[h] # "panicked"

\* The row holds every field of the user u.
SnapshotOf(row, u) ==
    /\ row.present
    /\ row.total_received = u.total_received
    /\ row.total_sent = u.total_sent
    /\ row.received_today = u.received_today
    /\ row.last_reset = u.last_reset \div TicksPerSec
    /\ Len(row.messages) = Len(u.messages)
    /\ \A i \in 1..Len(u.messages) :
          row.messages[i] = <<u.messages[i].role, u.messages[i].content>>

\* C12: when one sender's messages are handled at once, every row the store
\* holds is the whole snapshot of one handler, counters, last_reset and
\* history together, and its history is the history that handler loaded,
\* followed by nothing or by the two entries of its own exchange.
C12_WholeSnapshot ==
    [][db' # db =>
        \E h \in Handlers :
            /\ pc[h] \in {"update_sc", "update"}
            /\ SnapshotOf(db', user[h])
            /\ \/ user[h].messages = loaded[h].messages
               \/ /\ reply[h].kind = "text"
                  /\ user[h].messages =
                        loaded[h].messages
                            \o <<GPTMessage("User", msg[h]),
                                 GPTMessage("System", reply[h].content)>>]_vars

\* Two calls that read the same row have both written, the exchange first
\* and the command over it; the row is the command's snapshot as a whole
\* and nothing of the exchange is in it.
C12_Witness ==
    /\ pc["h1"] = "done" /\ pc["h2"] = "done"
    /\ pre["h1"] = pre["h2"] /\ pre["h1"].present
    /\ reply["h1"].kind = "text" /\ reply["h2"].kind = "stats"
    /\ SnapshotOf(db, [user["h2"] EXCEPT !.total_sent = @ - 1])
    /\ db.messages = pre["h1"].messages
    /\ db.total_sent = pre["h1"].total_sent

\* The handler whose write makes the step, if the step is a store write.
Writes(h) == pc[h] \in {"update_sc", "update"} /\ pc'[h] = "done"

\* C13 as stated: under any interleaving of handle_message calls the
\* persisted total_received and total_sent never decrease, and the persisted
\* received_today decreases only when the writer made the daily reset.
C13_CountersNeverDecrease ==
    [][\A h \in Handlers :
          Writes(h) =>
              /\ db'.total_received >= db.total_received
              /\ db'.total_sent >= db.total_sent
              /\ reset[h] \/ db'.received_today >= db.received_today]_vars

\* C13 amended: a write by a call that read the row it replaces (no other
\* call of the sender wrote in between) raises the persisted total_received,
\* does not lower total_sent, and lowers received_today only through the
\* daily reset; a call that overlaps another one writes the snapshot of an
\* older row, and that can lower all three.
C13_CountersNeverDecreaseInTurn ==
    [][\A h \in Handlers :
          (Writes(h) /\ pre[h] = db) =>
              /\ db'.total_received = db.total_received + 1
              /\ db'.total_sent >= db.total_sent
              /\ reset[h] \/ db'.received_today = db.received_today + 1]_vars

C13_Witness ==
    \E h \in Handlers :
        /\ Returned(h) /\ reset[h]
        /\ pre[h].received_today > 1
        /\ SnapshotOf(db, [user[h] EXCEPT !.total_sent = pre[h].total_sent])
        /\ db.received_today = 1
        /\ db.total_received = pre[h].total_received + 1

\* The row a new sender's first model exchange leaves.
AfterOneExchange(row) ==
    /\ row.present
    /\ row.total_received = 1 /\ row.total_sent = 1 /\ row.received_today = 1
    /\ Len(row.messages) = 3

\* C14 as stated: a !stats reply reports the post-increment total_received
\* and received_today and a total_sent that counts this reply; right after
\* one normal exchange of a new sender it reports 2, 2 and 2.
C14_StatsCountTheReply ==
    \A h \in Handlers :
        (Handling(h) /\ reply[h].kind = "stats") =>
            /\ reply[h].total_received = loaded[h].total_received + 1
            /\ reply[h].received_today = user[h].received_today
            /\ reply[h].total_sent = loaded[h].total_sent + 1
            /\ (AfterOneExchange(pre[h]) /\ ~ reset[h]) =>
                  reply[h] = StatsReply(2, 2, 2)

\* C14 amended: a !stats reply reports the post-increment total_received
\* and received_today, and the total_sent that was loaded, which does not
\* count this reply; right after one normal exchange of a new sender it
\* reports 2, 1 and 2.
C14_StatsReportLoadedSent ==
    \A h \in Handlers :
        (Handling(h) /\ reply[h].kind = "stats") =>
            /\ msg[h] = STATS
            /\ reply[h].total_received = loaded[h].total_received + 1
            /\ reply[h].received_today = user[h].received_today
            /\ reply[h].received_today =
                  (IF reset[h] THEN 1 ELSE loaded[h].received_today + 1)
            /\ reply[h].total_sent = loaded[h].total_sent
            /\ (AfterOneExchange(pre[h]) /\ ~ reset[h]) =>
                  reply[h] = StatsReply(2, 1, 2)

C14_Witness ==
    \E h \in Handlers :
        /\ Returned(h) /\ msg[h] = STATS
        /\ AfterOneExchange(pre[h]) /\ ~ reset[h]
        /\ reply[h] = StatsReply(2, 1, 2)
        /\ db.messages = pre[h].messages

\* The user a handler is about to persist, persisted and loaded again.
AboutToWrite(h) == pc[h] \in {"update_sc", "update"}
RoundTrip(h) == find_user(new_user(now), update_db(user[h]))

\* C15 as stated: update_db followed by find_user gives back the session,
\* equal in every field.
C15_RoundTrip ==
    \A h \in Handlers : AboutToWrite(h) => RoundTrip(h) = user[h]

\* C15 amended: update_db followed by find_user gives back the counters and
\* the ordered history unchanged, and last_reset cut to whole seconds: equal
\* when last_reset was itself loaded from the store, up to a second earlier
\* when it was taken from the clock (a new sender, or a daily reset).
C15_RoundTripToTheSecond ==
    \A h \in Handlers :
        AboutToWrite(h) =>
            /\ RoundTrip(h).total_received = user[h].total_received
            /\ RoundTrip(h).total_sent = user[h].total_sent
            /\ RoundTrip(h).received_today = user[h].received_today
            /\ RoundTrip(h).messages = user[h].messages
            /\ RoundTrip(h).last_reset % TicksPerSec = 0
            /\ RoundTrip(h).last_reset <= user[h].last_reset
            /\ user[h].last_reset < RoundTrip(h).last_reset + TicksPerSec
            /\ (pre[h].present /\ ~ reset[h]) => RoundTrip(h) = user[h]

C15_Witness ==
    \E h \in Handlers :
        /\ pc[h] = "update" /\ Len(user[h].messages) = 5
        /\ user[h].last_reset % TicksPerSec # 0
        /\ RoundTrip(h).messages = user[h].messages
        /\ RoundTrip(h).last_reset < user[h].last_reset

\* C16 as stated: a message that is !help or !stats once trimmed is handled
\* as a command: a deterministic reply, the history untouched and no
\* completion call.
C16_TrimmedCommands ==
    \A h \in Handlers :
        (Handling(h) /\ trim(msg[h]) \in {HELP, STATS}) =>
            /\ ShortCircuited(h)
            /\ gpt_calls[h] = 0
            /\ user[h].messages = loaded[h].messages

\* C16 amended: the commands are matched on the text as received, untrimmed:
\* a message that is exactly !help or !stats is short-circuited (the command
\* reply, or the quota reply at the limit) with the history untouched and no
\* completion call; any other text, a padded command included, goes to the
\* model exchange unless it is quota-rejected.
C16_ExactCommands ==
    \A h \in Handlers :
        Handling(h) =>
            /\ msg[h] \in {HELP, STATS} =>
                  /\ reply[h].kind =
                        (IF user[h].received_today >= DAILY_MESSAGE_LIMIT
                         THEN "quota"
                         ELSE IF msg[h] = HELP THEN "help" ELSE "stats")
                  /\ gpt_calls[h] = 0
                  /\ user[h].messages = loaded[h].messages
            /\ (msg[h] \notin {HELP, STATS}
                  /\ user[h].received_today < DAILY_MESSAGE_LIMIT) =>
                  /\ pc[h] \in {"gpt", "update", "done", "panicked"}
                  /\ reply[h].kind \in {"none", "text"}
                  /\ Len(user[h].messages) > Len(loaded[h].messages)
                  /\ user[h].messages[Len(loaded[h].messages) + 1] =
                        GPTMessage("User", msg[h])

C16_Witness ==
    \E h \in Handlers :
        /\ Returned(h) /\ msg[h] = PADDED_HELP
        /\ trim(msg[h]) = HELP
        /\ reply[h].kind = "text" /\ gpt_calls[h] = 1
        /\ db.messages[Len(db.messages) - 1] = <<"User", PADDED_HELP>>

\* C17: handle_short_circuits adds exactly 1 to received_today (after the
\* daily reset, when there is one) and to total_received for every message,
\* quota-rejected messages and commands included, and the values a call
\* persists are the incremented ones.
C17_EveryMessageCounted ==
    \A h \in Handlers :
        Handling(h) =>
            /\ user[h].total_received = loaded[h].total_received + 1
            /\ user[h].received_today =
                  (IF reset[h] THEN 0 ELSE loaded[h].received_today) + 1
            /\ Returned(h) =>
                  /\ db.total_received = pre[h].total_received + 1
                  /\ db.received_today = user[h].received_today

C17_Witness ==
    \E h \in Handlers :
        /\ Returned(h) /\ Command(h) /\ reply[h].kind = "quota"
        /\ pre[h].received_today >= DAILY_MESSAGE_LIMIT
        /\ db.received_today = pre[h].received_today + 1
        /\ db.total_received = pre[h].total_received + 1

\* s is the beginning of t.
IsPrefix(s, t) == Len(s) <= Len(t) /\ SubSeq(t, 1, Len(s)) = s

\* The messages of a call whose completion call is in flight.
InFlight(h) == make_chat_completion_message(user[h].messages)

\* C18: every history passed to the completion call and every history
\* persisted begins with the default prompt as a System entry, and holds it
\* once; a call persists the history it loaded with nothing removed; the
\* first exchange of a new sender persists the prompt, the user's text and
\* the reply.
C18_PromptFirstNothingRemoved ==
    /\ db.present =>
          /\ db.messages # <<>>
          /\ db.messages[1] = <<"System", DEFAULT_PROMPT>>
          /\ \A i \in 2..Len(db.messages) :
                db.messages[i][2] # DEFAULT_PROMPT
    /\ \A h \in Handlers :
          /\ pc[h] = "gpt" =>
                /\ InFlight(h)[1] =
                      [role |-> "System", content |-> Some(DEFAULT_PROMPT)]
                /\ InFlight(h)[Len(InFlight(h))] =
                      [role |-> "User", content |-> Some(msg[h])]
                /\ Len(InFlight(h)) = Len(loaded[h].messages) + 1
          /\ Handling(h) =>
                /\ IsPrefix(from_str(pre[h].messages), loaded[h].messages)
                /\ IsPrefix(loaded[h].messages, user[h].messages)
          /\ Returned(h) =>
                IsPrefix(pre[h].messages, db.messages)
          /\ (Returned(h) /\ ~ pre[h].present /\ reply[h].kind = "text") =>
                db.messages = <<<<"System", DEFAULT_PROMPT>>,
                                <<"User", msg[h]>>,
                                <<"System", reply[h].content>>>>

C18_Witness ==
    \E h \in Handlers :
        /\ Returned(h) /\ ~ pre[h].present /\ msg[h] = HELLO
        /\ db.messages = <<<<"System", DEFAULT_PROMPT>>,
                           <<"User", HELLO>>,
                           <<"System", <<"ok">>>>>>

\* C19: every handle_message call makes exactly one store write and at most
\* one completion call; on the path that is not short-circuited the write
\* comes after the completion call has resolved and after total_sent was
\* incremented, so that the row holds both new entries and the incremented
\* total_sent.
C19_OneUpsertAfterCompletion ==
    \A h \in Handlers :
        /\ gpt_calls[h] <= 1
        /\ upserts[h] <= 1
        /\ pc[h] \in {"done", "panicked"} => upserts[h] = 1
        /\ (upserts[h] = 1 /\ ~ ShortCircuited(h)) =>
              /\ gpt_calls[h] = 1
              /\ db.total_sent = pre[h].total_sent + 1
              /\ from_str(db.messages) =
                    loaded[h].messages
                        \o <<GPTMessage("User", msg[h]),
                             GPTMessage("System", reply[h].content)>>

\* C20: under any interleaving of the handlers, the history of the stored
\* row is the prompt followed by User and System entries in turn, so that
\* its length is odd, and the stored total_sent is the number of exchanges
\* in it, (Len - 1) / 2.
C20_AlternatingHistory ==
    db.present =>
        /\ Len(db.messages) % 2 = 1
        /\ db.messages[1] = <<"System", DEFAULT_PROMPT>>
        /\ \A i \in 2..Len(db.messages) :
              db.messages[i][1] = (IF i % 2 = 0 THEN "User" ELSE "System")
        /\ 2 * db.total_sent = Len(db.messages) - 1

\* Two calls read the same row; the command wrote first and the exchange
\* wrote over it.
C20_Witness ==
    /\ pc["h1"] = "done" /\ pc["h2"] = "done"
    /\ pre["h1"] = pre["h2"]
    /\ reply["h1"].kind = "text" /\ reply["h2"].kind = "stats"
    /\ Len(db.messages) = Len(pre["h1"].messages) + 2
    /\ Len(db.messages) = 5
    /\ db.total_sent = 2

====
